---- MODULE Spec2Model ----
(***************************************************************************)
(* Traffic-Flow dashboard: the traffic engine of app/src/App.tsx (the      *)
(* timer-driven runTrafficEngine loop, the engine effect that starts and   *)
(* stops it) and the operator handlers that touch the state it reads and   *)
(* writes: campaigns, logs, GA4 events, evasion (WAF) mode.                *)
(*                                                                         *)
(* React 18 semantics used throughout: a click handler's state updates are *)
(* rendered and their effects flushed before the next event is handled, so *)
(* one handler + render + effects is one atomic action; effects run in     *)
(* declaration order (the ref-sync effects of lines 332-333 before the     *)
(* engine effect of lines 416-424), cleanups before effect bodies.         *)
(***************************************************************************)
EXTENDS Integers, Sequences, FiniteSets, TLC

(* ---------- bounds of the exploration ---------- *)
MaxTicks == 4
MaxEdits == 1
MaxChecks == 2
RandDen == 4

(* ---------- values ---------- *)
Null == "null"
Undefined == "undefined"
None == [delay |-> -1, waf |-> "none"]
NoCall == [fn |-> "none"]
NoJob == [campaign |-> 0, url |-> Undefined]
NoCampaign == [id |-> 0, status |-> "paused", urls |-> <<>>, ga4Id |-> Null,
               hits |-> 0, trafficPattern |-> Undefined]

GoodUrl == "https://example.com/landing"
BadUrl == "example.com/landing"

WafModes == {"Standard", "Stealth", "Ghost"}
Patterns == {"Linear", "Viral", "Pulse"}

EventNames == <<"page_view", "session_start", "user_engagement", "scroll">>

LogKeep == 149
Ga4Keep == 99
IdleDelay == 2000
InitialLogCount == 10
WarmHits == 138
WarmEvents == 98
MaxKeywordLen == 2
EngineDraws == 100
MaxDepth == 6
PathDraws == 5
MaxPageHeight == 400
GoogleWeight == 85
GoogleWeightDe == 90
BingWeight == 8
YahooWeight == 5
YahooWeightJp == 15
DuckDuckGoWeight == 2

(* Math.random() is a draw d/RandDen, d in 0..RandDen-1. *)
Draws == 0 .. (RandDen - 1)

(* the two extreme draws, for the draws whose every value need not be told apart *)
EdgeDraws == {0, RandDen - 1}

(* Math.floor(Math.random() * n) as a 1-based index into a list of n. *)
RandomIndex(d, n) == ((d * n) \div RandDen) + 1

Min(a, b) == IF a < b THEN a ELSE b

(* new URL(url) succeeds: the string is an absolute URL with a scheme. *)
UrlParses(url) == url \in {GoodUrl}

(* ---------- campaign store ---------- *)
InitialCampaigns ==
  << [id |-> 1, status |-> "active", urls |-> <<GoodUrl>>, ga4Id |-> "G-DEMO123456",
      hits |-> 124, trafficPattern |-> Undefined],
     [id |-> 2, status |-> "paused", urls |-> <<GoodUrl>>, ga4Id |-> "G-DEMO789012",
      hits |-> 87, trafficPattern |-> Undefined],
     [id |-> 3, status |-> "paused", urls |-> <<GoodUrl>>, ga4Id |-> "G-DEMO345678",
      hits |-> 215, trafficPattern |-> Undefined] >>

InitLogEntry == [type |-> Undefined, kind |-> "INIT"]
HitLogEntry == [type |-> "work", kind |-> "HIT"]

InitialLogs == [i \in 1 .. InitialLogCount |-> InitLogEntry]

VARIABLES
  campaigns,          \* useState campaigns
  campaignsRef,       \* campaignsRef.current
  isEngineRunning,    \* useState isEngineRunning
  isEngineRunningRef, \* isEngineRunningRef.current
  engineTimer,        \* the pending setTimeout(runTrafficEngine, delay), with the wafMode its closure holds
  wafMode,            \* useState wafMode
  currentJob,         \* useState currentJob
  logs,               \* useState logs, newest first
  ga4Events,          \* useState ga4Events, newest first
  editingCampaign,    \* useState editingCampaign (a snapshot of the campaign record)
  showModal,          \* showNewCampaignModal || showEditCampaignModal
  referrerUrl,        \* useState referrerUrl
  referrerStatus,     \* useState referrerStatus
  referrerChecks,     \* pending setTimeout callbacks of handleCheckReferrer, oldest first (captured URL)
  crashed,            \* an exception escaped an effect: React unmounted the tree
  ticks,              \* number of runTrafficEngine invocations so far
  edits,              \* number of campaign-store edits (save, import, delete) so far
  checks,             \* number of referrer checks started so far
  strayTimers,        \* setTimeout callbacks still pending whose id engineTimerRef no longer holds
  call                \* the last call made into the session library, with its result

vars == <<campaigns, campaignsRef, isEngineRunning, isEngineRunningRef, engineTimer,
          wafMode, currentJob, logs, ga4Events, editingCampaign, showModal,
          referrerUrl, referrerStatus, referrerChecks, crashed, ticks, edits, checks,
          strayTimers, call>>

campaignVars == <<campaigns, campaignsRef>>
modalVars == <<editingCampaign, showModal>>
referrerVars == <<referrerUrl, referrerStatus, referrerChecks, checks>>
outputVars == <<logs, ga4Events>>
appVars == <<campaigns, campaignsRef, isEngineRunning, isEngineRunningRef, engineTimer,
             wafMode, currentJob, logs, ga4Events, editingCampaign, showModal,
             referrerUrl, referrerStatus, referrerChecks, crashed, ticks, edits, checks,
             strayTimers>>

Init ==
  /\ campaigns = InitialCampaigns
  /\ campaignsRef = InitialCampaigns
  /\ isEngineRunning = FALSE
  /\ isEngineRunningRef = FALSE
  /\ engineTimer = None
  /\ wafMode = "Ghost"
  /\ currentJob = NoJob
  /\ logs = InitialLogs
  /\ ga4Events = <<>>
  /\ editingCampaign = NoCampaign
  /\ showModal = FALSE
  /\ referrerUrl = ""
  /\ referrerStatus = "idle"
  /\ referrerChecks = <<>>
  /\ crashed = FALSE
  /\ ticks = 0
  /\ edits = 0
  /\ checks = 0
  /\ strayTimers = <<>>
  /\ call = NoCall

(***************************************************************************)
(* The campaign form is rendered in a full-viewport overlay (the MODAL     *)
(* block: "fixed inset-0 z-50"), so while showModal holds the operator can *)
(* reach only the form's Cancel and submit buttons; timers keep firing.    *)
(***************************************************************************)

(* ---------- pure pieces of runTrafficEngine ---------- *)

(* campaignsRef.current.filter(c => c.status === 'active') *)
ActiveCampaigns(cs) == SelectSeq(cs, LAMBDA c : c.status = "active")

(* job.urls[Math.floor(Math.random() * job.urls.length)]: undefined on an empty list *)
PickUrl(job, d) ==
  IF Len(job.urls) = 0 THEN Undefined ELSE job.urls[RandomIndex(d, Len(job.urls))]

(* faulty variant of IncrementHits: the updater applied twice (a double count) *)
IncrementHitsTwice(prev, jobId) ==
  [i \in DOMAIN prev |->
     IF prev[i].id = jobId THEN [prev[i] EXCEPT !.hits = @ + 2] ELSE prev[i]]

(* prev.map(c => c.id === job.id ? {...c, stats: {hits: hits + 1}} : c) *)
IncrementHits(prev, jobId) ==
  [i \in DOMAIN prev |->
     IF prev[i].id = jobId THEN [prev[i] EXCEPT !.hits = @ + 1] ELSE prev[i]]

(* faulty variant of AppendLog: slice(0, 150), one entry too many kept *)
AppendLogKeepOneMore(prev, entry) == <<entry>> \o SubSeq(prev, 1, Min(LogKeep + 1, Len(prev)))

(* [logEntry, ...prev.slice(0, 149)] *)
AppendLog(prev, entry) == <<entry>> \o SubSeq(prev, 1, Min(LogKeep, Len(prev)))

(* faulty variant of AppendGa4Event: slice(0, 100), one event too many kept *)
AppendGa4EventKeepOneMore(prev, event) ==
  <<event>> \o SubSeq(prev, 1, Min(Ga4Keep + 1, Len(prev)))

(* [ga4Event, ...prev.slice(0, 99)] *)
AppendGa4Event(prev, event) == <<event>> \o SubSeq(prev, 1, Min(Ga4Keep, Len(prev)))

(* faulty variant of HasGa4Id: the event is generated without the test *)
HasGa4IdAlways(job) == TRUE

(* if (job.ga4Id): a null (or empty) id is falsy *)
HasGa4Id(job) == job.ga4Id # Null

(* the ga4Event record: eventNames[Math.floor(Math.random() * eventNames.length)] *)
Ga4Event(d) == [eventName |-> EventNames[RandomIndex(d, Len(EventNames))]]

(* faulty variant of GetWafDelay: the Stealth and Ghost cases swapped *)
GetWafDelaySwapped(mode, d) ==
  CASE mode = "Standard" -> 1500
    [] mode = "Ghost" -> 2000 + ((d * 1000) \div RandDen)
    [] mode = "Stealth" -> 2500 + ((d * 2000) \div RandDen)
    [] OTHER -> 1500

(* getWafDelay(mode), in ms; d/RandDen is its Math.random() *)
GetWafDelay(mode, d) ==
  CASE mode = "Standard" -> 1500
    [] mode = "Stealth" -> 2000 + ((d * 1000) \div RandDen)
    [] mode = "Ghost" -> 2500 + ((d * 2000) \div RandDen)
    [] OTHER -> 1500

(* faulty variant of HitRearmDelay: the delay grows with the campaign's hit count *)
HitRearmDelayGrowing(job, mode, d) == GetWafDelay(mode, d) + job.hits

(* faulty variant of HitRearmDelay: every campaign is paced as a Pulse lull, base * 2.5 *)
HitRearmDelayLull(job, mode, d) == (GetWafDelay(mode, d) * 5) \div 2

(* const delay = getWafDelay(wafMode): the delay armed after a hit on job; *)
(* nothing of job (trafficPattern, stats.hits) is read                     *)
HitRearmDelay(job, mode, d) == GetWafDelay(mode, d)

(* faulty variant of IdleRearmDelay: the idle branch re-arms at the Standard hit delay *)
IdleRearmAtHitDelay == GetWafDelay("Standard", 0)

(* setTimeout(runTrafficEngine, 2000) of the idle branch *)
IdleRearmDelay == IdleDelay

(* faulty variant of SyncCampaignsRef: the ref is never refreshed *)
StaleCampaignsRef(oldRef, newCampaigns) == oldRef

(* the campaignsRef sync effect: campaignsRef.current = campaigns *)
SyncCampaignsRef(oldRef, newCampaigns) == newCampaigns

(***************************************************************************)
(* runTrafficEngine, one invocation.  running is isEngineRunningRef at the *)
(* call, waf the wafMode of the closure, viaEffect whether the call is the *)
(* engine effect's direct call (an exception then escapes an effect and    *)
(* React unmounts the tree, running the effect cleanup) or a timer         *)
(* callback (an exception then ends the callback; the state updates        *)
(* already queued are still applied).  pending is the timeout whose id     *)
(* engineTimerRef.current holds at the call, None when that timeout has    *)
(* fired or was cleared, and strays the other timeouts still pending:      *)
(* engineTimerRef.current = setTimeout(...) overwrites the id without      *)
(* clearing it, so a timeout still pending then stays pending with no      *)
(* handle left to cancel it.  The Math.random() draws are taken where the  *)
(* code takes them; a draw whose value cannot matter (one URL, no GA4 id,  *)
(* Standard mode) is taken once.  Sets every engine-written variable.      *)
(***************************************************************************)
RunTrafficEngine(running, waf, viaEffect, pending, strays) ==
  LET active == ActiveCampaigns(campaignsRef)
      overwritten == IF pending = None THEN strays ELSE Append(strays, pending)
  IN
  /\ ticks' = ticks + 1
  /\ IF ~running
       THEN /\ engineTimer' = pending
            /\ strayTimers' = strays
            /\ UNCHANGED <<campaigns, campaignsRef, currentJob, logs, ga4Events, crashed>>
     ELSE IF Len(active) = 0
       THEN /\ engineTimer' = [delay |-> IdleRearmDelay, waf |-> waf]
            /\ strayTimers' = overwritten
            /\ UNCHANGED <<campaigns, campaignsRef, currentJob, logs, ga4Events, crashed>>
     ELSE
       \E dJob \in Draws :
         LET job == active[RandomIndex(dJob, Len(active))] IN
         \E dUrl \in (IF Len(job.urls) > 1 THEN EdgeDraws ELSE {0}) :
           LET url == PickUrl(job, dUrl)
               hit == IncrementHits(campaigns, job.id)
           IN IF ~UrlParses(url)
                THEN IF viaEffect
                       THEN /\ crashed' = TRUE
                            /\ engineTimer' = None
                            /\ strayTimers' = strays
                            /\ UNCHANGED <<campaigns, campaignsRef, currentJob, logs, ga4Events>>
                       ELSE /\ campaigns' = hit
                            /\ campaignsRef' = SyncCampaignsRef(campaignsRef, hit)
                            /\ currentJob' = [campaign |-> job.id, url |-> url]
                            /\ engineTimer' = pending
                            /\ strayTimers' = strays
                            /\ UNCHANGED <<logs, ga4Events, crashed>>
                ELSE /\ campaigns' = hit
                     /\ campaignsRef' = SyncCampaignsRef(campaignsRef, hit)
                     /\ currentJob' = [campaign |-> job.id, url |-> url]
                     /\ logs' = AppendLog(logs, HitLogEntry)
                     /\ IF HasGa4Id(job)
                          THEN \E dEv \in EdgeDraws :
                                 ga4Events' = AppendGa4Event(ga4Events, Ga4Event(dEv))
                          ELSE ga4Events' = ga4Events
                     /\ \E dDelay \in (IF waf = "Standard" THEN {0} ELSE EdgeDraws) :
                          engineTimer' = [delay |-> HitRearmDelay(job, waf, dDelay), waf |-> waf]
                     /\ strayTimers' = overwritten
                     /\ crashed' = FALSE

(* the timeouts a timer firing can come from: 0 is the one engineTimerRef  *)
(* holds, k > 0 the k-th stray                                              *)
PendingTicks == (IF engineTimer = None THEN {} ELSE {0}) \cup DOMAIN strayTimers

(* strays without its k-th timeout *)
WithoutStray(strays, k) == SubSeq(strays, 1, k - 1) \o SubSeq(strays, k + 1, Len(strays))

(* a pending timeout fires and calls runTrafficEngine *)
TimerTick ==
  /\ ~crashed
  /\ ticks < MaxTicks
  /\ \E k \in PendingTicks :
       IF k = 0
         THEN RunTrafficEngine(isEngineRunningRef, engineTimer.waf, FALSE, None, strayTimers)
         ELSE RunTrafficEngine(isEngineRunningRef, strayTimers[k].waf, FALSE, engineTimer,
                               WithoutStray(strayTimers, k))
  /\ UNCHANGED <<call, isEngineRunning, isEngineRunningRef, wafMode, modalVars, referrerVars, edits>>

(* faulty variant of ClearEngineTimer: the pending timer is left armed *)
KeepEngineTimer(timer) == timer

(* clearTimeout(engineTimerRef.current), in the engine effect's cleanup and its else branch *)
ClearEngineTimer(timer) == None

(* faulty variant of EngineEffectRuns: the effect has no dependency list *)
EngineEffectRunsAlways(oldRunning, newRunning) == TRUE

(* the engine effect's dependency [isEngineRunning]: setting the state to  *)
(* the value it has renders nothing and runs no effect                     *)
EngineEffectRuns(oldRunning, newRunning) == oldRunning # newRunning

(* setIsEngineRunning(value), then the ref-sync effect and the engine      *)
(* effect: cleanup, then either one immediate runTrafficEngine() or        *)
(* clearTimeout + setCurrentJob(null).                                     *)
SetIsEngineRunning(value) ==
  /\ ~crashed
  /\ ~showModal
  /\ isEngineRunning' = value
  /\ isEngineRunningRef' = value
  /\ IF ~EngineEffectRuns(isEngineRunning, value)
       THEN UNCHANGED <<campaigns, campaignsRef, engineTimer, strayTimers, currentJob, logs,
                        ga4Events, crashed, ticks>>
     ELSE IF value
       THEN /\ ticks < MaxTicks
            /\ RunTrafficEngine(value, wafMode, TRUE, ClearEngineTimer(engineTimer), strayTimers)
       ELSE /\ engineTimer' = ClearEngineTimer(engineTimer)
            /\ currentJob' = NoJob
            /\ UNCHANGED <<campaigns, campaignsRef, strayTimers, logs, ga4Events, crashed,
                           ticks>>
  /\ UNCHANGED <<call, wafMode, modalVars, referrerVars, edits>>

(* START/STOP ENGINE button: setIsEngineRunning(!isEngineRunning) *)
ToggleEngine == SetIsEngineRunning(~isEngineRunning)

(* faulty variant of RecreatedCallbackMode: useCallback with no dependency, *)
(* the callback keeps the wafMode of the render that created it            *)
StaleCallbackMode(oldMode, newMode) == oldMode

(* useCallback(..., [wafMode]): the wafMode the re-created callback closes over *)
RecreatedCallbackMode(oldMode, newMode) == newMode

(* WAF mode button: setWafMode(mode).  runTrafficEngine is re-created       *)
(* (useCallback deps [wafMode]), so the engine effect re-runs: its cleanup  *)
(* clears the pending timer, then its body runs as for ToggleEngine.        *)
SetWafMode(mode) ==
  /\ ~crashed
  /\ ~showModal
  /\ mode # wafMode
  /\ wafMode' = mode
  /\ IF isEngineRunning
       THEN /\ ticks < MaxTicks
            /\ RunTrafficEngine(isEngineRunningRef, RecreatedCallbackMode(wafMode, mode), TRUE,
                                ClearEngineTimer(engineTimer), strayTimers)
       ELSE /\ engineTimer' = ClearEngineTimer(engineTimer)
            /\ currentJob' = NoJob
            /\ UNCHANGED <<campaigns, campaignsRef, strayTimers, logs, ga4Events, crashed,
                           ticks>>
  /\ UNCHANGED <<call, isEngineRunning, isEngineRunningRef, modalVars, referrerVars, edits>>

(* faulty variant of FlipStatus: the id test is missing, every campaign is flipped *)
FlipStatusAll(prev, id) ==
  [i \in DOMAIN prev |->
     [prev[i] EXCEPT !.status = IF @ = "active" THEN "paused" ELSE "active"]]

(* prev.map(c => c.id === campaign.id ? {...c, status: flipped} : c) *)
FlipStatus(prev, id) ==
  [i \in DOMAIN prev |->
     IF prev[i].id = id
       THEN [prev[i] EXCEPT !.status = IF @ = "active" THEN "paused" ELSE "active"]
       ELSE prev[i]]

(* pause / resume button of a campaign row *)
ToggleCampaignStatus(i) ==
  /\ ~crashed
  /\ ~showModal
  /\ i \in DOMAIN campaigns
  /\ campaigns' = FlipStatus(campaigns, campaigns[i].id)
  /\ campaignsRef' = SyncCampaignsRef(campaignsRef, campaigns')
  /\ UNCHANGED <<strayTimers, call,
                 isEngineRunning, isEngineRunningRef, engineTimer, wafMode, currentJob,
                 outputVars, modalVars, referrerVars, crashed, ticks, edits>>

(* delete button of a campaign row, confirmed *)
HandleDeleteCampaign(i) ==
  /\ ~crashed
  /\ ~showModal
  /\ i \in DOMAIN campaigns
  /\ edits < MaxEdits
  /\ edits' = edits + 1
  /\ campaigns' = SelectSeq(campaigns, LAMBDA c : c.id # campaigns[i].id)
  /\ campaignsRef' = SyncCampaignsRef(campaignsRef, campaigns')
  /\ UNCHANGED <<strayTimers, call,
                 isEngineRunning, isEngineRunningRef, engineTimer, wafMode, currentJob,
                 outputVars, modalVars, referrerVars, crashed, ticks>>

(* click on a campaign row or its edit button *)
HandleEditCampaign(i) ==
  /\ ~crashed
  /\ ~showModal
  /\ i \in DOMAIN campaigns
  /\ editingCampaign' = campaigns[i]
  /\ showModal' = TRUE
  /\ UNCHANGED <<strayTimers, call,
                 campaignVars, isEngineRunning, isEngineRunningRef, engineTimer, wafMode,
                 currentJob, outputVars, referrerVars, crashed, ticks, edits>>

(* New Campaign button: setShowNewCampaignModal(true) *)
OpenNewCampaign ==
  /\ ~crashed
  /\ ~showModal
  /\ showModal' = TRUE
  /\ UNCHANGED <<strayTimers, call,
                 campaignVars, isEngineRunning, isEngineRunningRef, engineTimer, wafMode,
                 currentJob, outputVars, editingCampaign, referrerVars, crashed, ticks, edits>>

(* Cancel button of the form *)
CloseModal ==
  /\ ~crashed
  /\ showModal
  /\ showModal' = FALSE
  /\ editingCampaign' = NoCampaign
  /\ UNCHANGED <<strayTimers, call,
                 campaignVars, isEngineRunning, isEngineRunningRef, engineTimer, wafMode,
                 currentJob, outputVars, referrerVars, crashed, ticks, edits>>

(* 'camp-' + Date.now(): an id no stored campaign has *)
NewCampaignId(n) == 100 + n

(* the form contents the operator can submit: name given or blank, the URL *)
(* lines, the GA4 id (null when blank), the checked pattern radio (null     *)
(* when none is checked)                                                    *)
FormSubmissions ==
  { [nameGiven |-> TRUE, urls |-> <<GoodUrl>>, ga4Id |-> Null, pattern |-> "Pulse"],
    [nameGiven |-> TRUE, urls |-> <<BadUrl>>, ga4Id |-> "G-FORM", pattern |-> "Viral"],
    [nameGiven |-> TRUE, urls |-> <<GoodUrl>>, ga4Id |-> "G-FORM", pattern |-> Null],
    [nameGiven |-> TRUE, urls |-> <<>>, ga4Id |-> Null, pattern |-> "Linear"],
    [nameGiven |-> FALSE, urls |-> <<GoodUrl>>, ga4Id |-> Null, pattern |-> "Linear"] }

(* defaultChecked of the trafficPattern radio of one pattern, when the form mounts *)
DefaultChecked(editing, pattern) ==
  \/ editing.trafficPattern = pattern
  \/ editing.trafficPattern \in {Undefined, ""} /\ pattern = "Linear"

(* the radios the form shows checked when it opens *)
CheckedRadios(editing) == {pattern \in Patterns : DefaultChecked(editing, pattern)}

(* faulty variant of NewCampaign: the selected pattern is not stored, the default is *)
NewCampaignPatternDropped(editing, urls, ga4Id, pattern, n) ==
  [id |-> IF editing # NoCampaign THEN editing.id ELSE NewCampaignId(n),
   status |-> IF editing # NoCampaign THEN editing.status ELSE "paused",
   urls |-> urls,
   ga4Id |-> ga4Id,
   hits |-> IF editing # NoCampaign THEN editing.hits ELSE 0,
   trafficPattern |-> "Linear"]

(* the newCampaign record built by handleSaveCampaign *)
NewCampaign(editing, urls, ga4Id, pattern, n) ==
  [id |-> IF editing # NoCampaign THEN editing.id ELSE NewCampaignId(n),
   status |-> IF editing # NoCampaign THEN editing.status ELSE "paused",
   urls |-> urls,
   ga4Id |-> ga4Id,
   hits |-> IF editing # NoCampaign THEN editing.hits ELSE 0,
   trafficPattern |-> IF pattern = Null THEN "Linear" ELSE pattern]

(* submit of the campaign form *)
HandleSaveCampaign(nameGiven, urls, ga4Id, pattern) ==
  LET newCampaign == NewCampaign(editingCampaign, urls, ga4Id, pattern, edits) IN
  /\ ~crashed
  /\ showModal
  /\ edits < MaxEdits
  /\ IF ~nameGiven \/ Len(newCampaign.urls) = 0
       THEN UNCHANGED <<campaigns, campaignsRef, modalVars, edits>>
       ELSE /\ campaigns' =
                 IF editingCampaign # NoCampaign
                   THEN [i \in DOMAIN campaigns |->
                           IF campaigns[i].id = editingCampaign.id THEN newCampaign
                                                                  ELSE campaigns[i]]
                   ELSE Append(campaigns, newCampaign)
            /\ campaignsRef' = SyncCampaignsRef(campaignsRef, campaigns')
            /\ showModal' = FALSE
            /\ editingCampaign' = NoCampaign
            /\ edits' = edits + 1
  /\ UNCHANGED <<strayTimers, call,
                 isEngineRunning, isEngineRunningRef, engineTimer, wafMode, currentJob,
                 outputVars, referrerVars, crashed, ticks>>

(* backup files the operator can restore: JSON arrays of campaign records *)
BackupFiles ==
  { << [id |-> 1, status |-> "active", urls |-> <<GoodUrl>>, ga4Id |-> Null,
        hits |-> 5, trafficPattern |-> "Linear"],
       [id |-> 9, status |-> "active", urls |-> <<>>, ga4Id |-> Null,
        hits |-> 0, trafficPattern |-> "Linear"] >> }

(* Restore: reader.onload with a file that parses to an array *)
HandleImportCampaigns(data) ==
  /\ ~crashed
  /\ ~showModal
  /\ edits < MaxEdits
  /\ edits' = edits + 1
  /\ campaigns' = data
  /\ campaignsRef' = SyncCampaignsRef(campaignsRef, campaigns')
  /\ UNCHANGED <<strayTimers, call,
                 isEngineRunning, isEngineRunningRef, engineTimer, wafMode, currentJob,
                 outputVars, modalVars, referrerVars, crashed, ticks>>

(* Clear button of the GA4 events panel: setGa4Events([]) *)
ClearGa4Events ==
  /\ ~crashed
  /\ ~showModal
  /\ ga4Events # <<>>
  /\ ga4Events' = <<>>
  /\ UNCHANGED <<strayTimers, call,
                 campaignVars, isEngineRunning, isEngineRunningRef, engineTimer, wafMode,
                 currentJob, logs, modalVars, referrerVars, crashed, ticks, edits>>

(* ---------- the referrer validator ---------- *)

(* texts the operator can type into the referrer input *)
ReferrerInputs == {"", "https://referrer-site.com", "httpx", "referrer-site.com"}

(* !referrerUrl.trim() *)
IsBlank(text) == text = ""

(* referrerUrl.startsWith('http') && referrerUrl.includes('.') *)
IsValidReferrer(text) ==
  /\ text \in {"https://referrer-site.com", "httpx"}
  /\ text \in {"https://referrer-site.com", "referrer-site.com"}

(* the log entry of a finished referrer check *)
RefLogEntry(isValid) == [type |-> IF isValid THEN "work" ELSE "error", kind |-> "REF"]

(* onChange of the referrer input *)
SetReferrerUrl(text) ==
  /\ ~crashed
  /\ ~showModal
  /\ text # referrerUrl
  /\ referrerUrl' = text
  /\ referrerStatus' = "idle"
  /\ UNCHANGED <<strayTimers, call,
                 campaignVars, isEngineRunning, isEngineRunningRef, engineTimer, wafMode,
                 currentJob, outputVars, modalVars, referrerChecks, checks, crashed, ticks, edits>>

(* Check button (disabled while referrerStatus is 'checking') *)
HandleCheckReferrer ==
  /\ ~crashed
  /\ ~showModal
  /\ referrerStatus # "checking"
  /\ checks < MaxChecks
  /\ IF IsBlank(referrerUrl)
       THEN UNCHANGED <<referrerStatus, referrerChecks, checks>>
       ELSE /\ referrerStatus' = "checking"
            /\ referrerChecks' = Append(referrerChecks, referrerUrl)
            /\ checks' = checks + 1
  /\ UNCHANGED <<strayTimers, call,
                 campaignVars, isEngineRunning, isEngineRunningRef, engineTimer, wafMode,
                 currentJob, outputVars, modalVars, referrerUrl, crashed, ticks, edits>>

(* faulty variant of CheckedText: the callback reads the text the input holds now *)
CheckedTextNow(captured, current) == current

(* the referrerUrl the setTimeout callback reads: the one its closure      *)
(* captured when the check started                                         *)
CheckedText(captured, current) == captured

(* the setTimeout callback of handleCheckReferrer, 1500ms after its check  *)
(* started; the delays are equal, so the callbacks run in starting order   *)
ReferrerCheckDone ==
  /\ ~crashed
  /\ referrerChecks # <<>>
  /\ LET isValid == IsValidReferrer(CheckedText(Head(referrerChecks), referrerUrl)) IN
       /\ referrerStatus' = IF isValid THEN "valid" ELSE "invalid"
       /\ logs' = AppendLog(logs, RefLogEntry(isValid))
  /\ referrerChecks' = Tail(referrerChecks)
  /\ UNCHANGED <<strayTimers, call,
                 campaignVars, isEngineRunning, isEngineRunningRef, engineTimer, wafMode,
                 currentJob, ga4Events, modalVars, referrerUrl, checks, crashed, ticks, edits>>

(* ---------- the actions, by the part of the dashboard they belong to ---------- *)

(* the engine: its timer, its start/stop button, the WAF mode buttons *)
EngineActions ==
  \/ TimerTick
  \/ ToggleEngine
  \/ \E mode \in WafModes : SetWafMode(mode)

(* the campaign table and the GA4 panel *)
PanelActions ==
  \/ \E i \in 1 .. Len(campaigns) : ToggleCampaignStatus(i)
  \/ ClearGa4Events

(* the campaign store: the form, delete, restore *)
StoreActions ==
  \/ \E i \in 1 .. Len(campaigns) : HandleDeleteCampaign(i)
  \/ \E i \in 1 .. Len(campaigns) : HandleEditCampaign(i)
  \/ OpenNewCampaign
  \/ CloseModal
  \/ \E f \in FormSubmissions : HandleSaveCampaign(f.nameGiven, f.urls, f.ga4Id, f.pattern)
  \/ \E data \in BackupFiles : HandleImportCampaigns(data)

(* the referrer validator's input, button and timer *)
ReferrerActions ==
  \/ \E text \in ReferrerInputs : SetReferrerUrl(text)
  \/ HandleCheckReferrer
  \/ ReferrerCheckDone

(* the whole dashboard *)
Next == EngineActions \/ PanelActions \/ StoreActions \/ ReferrerActions
Spec == Init /\ [][Next]_vars


(* the engine with the operator pausing and resuming campaigns *)
NextEngine == EngineActions \/ PanelActions
SpecEngine == Init /\ [][NextEngine]_vars

(* the engine driven by start and stop commands, setIsEngineRunning(true) and  *)
(* setIsEngineRunning(false), given in any engine state; the dashboard's own   *)
(* button gives only the command that changes the state                        *)
NextCommand ==
  \/ NextEngine
  \/ \E value \in BOOLEAN : SetIsEngineRunning(value)
SpecCommand == Init /\ [][NextCommand]_vars

(* the engine with the operator editing the campaign store *)
NextStore ==
  \/ TimerTick
  \/ ToggleEngine
  \/ StoreActions
SpecStore == Init /\ [][NextStore]_vars


(* the form submitted with a name, one URL, no GA4 id and the radio of one pattern selected *)
PatternSubmissions ==
  {[nameGiven |-> TRUE, urls |-> <<GoodUrl>>, ga4Id |-> Null, pattern |-> p] : p \in Patterns}

(* the engine with the operator editing campaigns' traffic patterns *)
NextPattern ==
  \/ EngineActions
  \/ \E i \in 1 .. Len(campaigns) : HandleEditCampaign(i)
  \/ CloseModal
  \/ \E f \in PatternSubmissions : HandleSaveCampaign(f.nameGiven, f.urls, f.ga4Id, f.pattern)
SpecPattern == Init /\ [][NextPattern]_vars

(***************************************************************************)
(* The dashboard after a long run: from Init the operator chose Standard   *)
(* mode, started the engine, WarmHits ticks hit camp-1 (the only active    *)
(* campaign), and the operator stopped the engine and cleared the GA4      *)
(* panel.  The log holds the WarmHits hit entries above the initial ones.  *)
(***************************************************************************)
InitWarm ==
  /\ campaigns = [InitialCampaigns EXCEPT ![1].hits = @ + WarmHits]
  /\ campaignsRef = campaigns
  /\ isEngineRunning = FALSE
  /\ isEngineRunningRef = FALSE
  /\ engineTimer = None
  /\ wafMode = "Standard"
  /\ currentJob = NoJob
  /\ logs = [i \in 1 .. WarmHits |-> HitLogEntry] \o InitialLogs
  /\ ga4Events = <<>>
  /\ editingCampaign = NoCampaign
  /\ showModal = FALSE
  /\ referrerUrl = ""
  /\ referrerStatus = "idle"
  /\ referrerChecks = <<>>
  /\ crashed = FALSE
  /\ ticks = 0
  /\ edits = 0
  /\ checks = 0
  /\ strayTimers = <<>>
  /\ call = NoCall

(* the engine and the referrer validator, the two writers of the log *)
(* the texts typed into the referrer input here: one valid, one invalid *)
WarmReferrerInputs == {"https://referrer-site.com", "httpx"}

NextWarm ==
  \/ TimerTick
  \/ ToggleEngine
  \/ \E text \in WarmReferrerInputs : SetReferrerUrl(text)
  \/ HandleCheckReferrer
  \/ ReferrerCheckDone
SpecWarm == InitWarm /\ [][NextWarm]_vars

(***************************************************************************)
(* The same long run, but the operator cleared the GA4 panel when only     *)
(* WarmEvents of the WarmHits ticks were still to come: the panel holds    *)
(* the WarmEvents events of those ticks (camp-1 has a GA4 id), their names *)
(* as drawn.  The operator has typed a URL into the referrer input.        *)
(***************************************************************************)
InitWarmGa4 ==
  /\ campaigns = [InitialCampaigns EXCEPT ![1].hits = @ + WarmHits]
  /\ campaignsRef = campaigns
  /\ isEngineRunning = FALSE
  /\ isEngineRunningRef = FALSE
  /\ engineTimer = None
  /\ wafMode = "Standard"
  /\ currentJob = NoJob
  /\ logs = [i \in 1 .. WarmHits |-> HitLogEntry] \o InitialLogs
  /\ ga4Events = [i \in 1 .. WarmEvents |-> Ga4Event(IF i % 2 = 0 THEN 0 ELSE RandDen - 1)]
  /\ editingCampaign = NoCampaign
  /\ showModal = FALSE
  /\ referrerUrl = "https://referrer-site.com"
  /\ referrerStatus = "idle"
  /\ referrerChecks = <<>>
  /\ crashed = FALSE
  /\ ticks = 0
  /\ edits = 0
  /\ checks = 0
  /\ strayTimers = <<>>
  /\ call = NoCall

(* the writers of the two buffers: the engine, the GA4 panel's Clear, the referrer validator *)
NextWarmGa4 ==
  \/ TimerTick
  \/ ToggleEngine
  \/ ClearGa4Events
  \/ HandleCheckReferrer
  \/ ReferrerCheckDone
SpecWarmGa4 == InitWarmGa4 /\ [][NextWarmGa4]_vars

(***************************************************************************)
(* The end-to-end scenario's setup: from Init the operator created a       *)
(* campaign with one URL, no GA4 id and the Linear pattern (it is stored   *)
(* paused, with 0 hits), resumed it, paused camp-1 and chose Standard      *)
(* mode.  The operator then starts the engine and lets it run.             *)
(***************************************************************************)
ScenarioCampaigns ==
  FlipStatus(
    FlipStatus(Append(InitialCampaigns, NewCampaign(NoCampaign, <<GoodUrl>>, Null, "Linear", 0)),
               NewCampaignId(0)),
    InitialCampaigns[1].id)

InitScenario ==
  /\ campaigns = ScenarioCampaigns
  /\ campaignsRef = campaigns
  /\ isEngineRunning = FALSE
  /\ isEngineRunningRef = FALSE
  /\ engineTimer = None
  /\ wafMode = "Standard"
  /\ currentJob = NoJob
  /\ logs = InitialLogs
  /\ ga4Events = <<>>
  /\ editingCampaign = NoCampaign
  /\ showModal = FALSE
  /\ referrerUrl = ""
  /\ referrerStatus = "idle"
  /\ referrerChecks = <<>>
  /\ crashed = FALSE
  /\ ticks = 0
  /\ edits = 1
  /\ checks = 0
  /\ strayTimers = <<>>
  /\ call = NoCall

(* the button while it reads START ENGINE *)
StartEngine == ~isEngineRunning /\ ToggleEngine

NextScenario ==
  \/ StartEngine
  \/ TimerTick
  \/ ReferrerActions
SpecScenario == InitScenario /\ [][NextScenario]_vars

(* ======================= properties ======================= *)

(* a step in which runTrafficEngine was invoked *)
TickRan == ticks' = ticks + 1

RECURSIVE SumHits(_)
SumHits(cs) == IF cs = <<>> THEN 0 ELSE Head(cs).hits + SumHits(Tail(cs))

(* the hits of the campaign with this id, -1 when the store has none *)
HitsOfId(cs, id) ==
  IF \E i \in DOMAIN cs : cs[i].id = id
    THEN cs[CHOOSE i \in DOMAIN cs : cs[i].id = id].hits
    ELSE -1

(***************************************************************************)
(* C1: every tick that produces a hit (it logs a hit or touches a counter) *)
(* increments the stats.hits of the campaign it selected by exactly 1 and  *)
(* leaves every other campaign's stats.hits unchanged; between ticks the   *)
(* engine's controls and pause/resume leave every counter as it is, so N   *)
(* hits attributed to a campaign add exactly N.                            *)
(***************************************************************************)
C1_TickIncrementsSelectedByOne ==
  [][/\ DOMAIN campaigns' = DOMAIN campaigns
     /\ (TickRan /\ (logs' # logs \/ campaigns' # campaigns)) =>
          \E i \in DOMAIN campaigns :
            /\ currentJob'.campaign = campaigns[i].id
            /\ campaigns'[i].hits = campaigns[i].hits + 1
            /\ \A k \in DOMAIN campaigns \ {i} : campaigns'[k].hits = campaigns[k].hits
     /\ ~TickRan => \A k \in DOMAIN campaigns : campaigns'[k].hits = campaigns[k].hits]_vars

(* two campaigns were active and each was hit once *)
C1_Witness == campaigns[1].hits = 125 /\ campaigns[2].hits = 88

(***************************************************************************)
(* C2: for every campaign that stays in the store, stats.hits never        *)
(* decreases in any step other than a restore from a backup file (engine   *)
(* ticks, start/stop, opening, cancelling and saving the form, delete).    *)
(***************************************************************************)
C2_HitsNeverDecrease ==
  [][\/ \E data \in BackupFiles : HandleImportCampaigns(data)
     \/ \A i \in DOMAIN campaigns :
          HitsOfId(campaigns', campaigns[i].id) = -1
          \/ HitsOfId(campaigns', campaigns[i].id) >= campaigns[i].hits]_vars

(***************************************************************************)
(* C3: a stop cancels the pending tick: whenever a step ends with the      *)
(* engine Stopped no timer is pending, and while the engine stays Stopped  *)
(* runTrafficEngine is not invoked, no hit counter and no log entry        *)
(* changes and no analytics event is appended.                             *)
(***************************************************************************)
C3_StopCancelsPendingTick ==
  [][/\ ~isEngineRunning' => engineTimer' = None
     /\ (~isEngineRunning /\ ~isEngineRunning') =>
          /\ ~TickRan
          /\ DOMAIN campaigns' = DOMAIN campaigns
          /\ \A k \in DOMAIN campaigns : campaigns'[k].hits = campaigns[k].hits
          /\ logs' = logs
          /\ ga4Events' \in {ga4Events, <<>>}]_vars

(* stopped after the immediate tick and one timer tick, nothing pending *)
C3_Witness ==
  ~isEngineRunning /\ engineTimer = None /\ ticks >= 2 /\ Len(logs) >= InitialLogCount + 2

(***************************************************************************)
(* C4: while the engine is Running (and the dashboard is mounted) a future *)
(* tick is always armed: no tick ends without re-arming, whatever campaign *)
(* it selected.                                                            *)
(***************************************************************************)
C4_RunningAlwaysArmed == (isEngineRunning /\ ~crashed) => engineTimer # None

(***************************************************************************)
(* C5: a campaign with status active and zero URLs is never selected: no   *)
(* tick changes its stats.hits or makes it the current job.                *)
(***************************************************************************)
C5_EmptyCampaignNeverSelected ==
  [][TickRan =>
       \A i \in DOMAIN campaigns :
         (campaigns[i].status = "active" /\ campaigns[i].urls = <<>>) =>
           /\ HitsOfId(campaigns', campaigns[i].id) = campaigns[i].hits
           /\ (currentJob' # currentJob => currentJob'.campaign # campaigns[i].id)]_vars

(***************************************************************************)
(* C6: a tick selects only among the campaigns that are active when it     *)
(* runs: it leaves every campaign that is paused at that moment untouched  *)
(* and the campaign it makes the current job is active at that moment.     *)
(***************************************************************************)
C6_TickSelectsOnlyActive ==
  [][TickRan =>
       /\ DOMAIN campaigns' = DOMAIN campaigns
       /\ \A i \in DOMAIN campaigns :
            campaigns[i].status = "paused" => campaigns'[i] = campaigns[i]
       /\ campaigns' # campaigns =>
            \E i \in DOMAIN campaigns :
              campaigns[i].status = "active" /\ currentJob'.campaign = campaigns[i].id]_vars

(* camp-1 was hit, then paused; camp-2, resumed, was hit by a later tick *)
C6_Witness ==
  /\ campaigns[1].status = "paused" /\ campaigns[1].hits = 125
  /\ campaigns[2].status = "active" /\ campaigns[2].hits = 88
  /\ currentJob.campaign = 2

(***************************************************************************)
(* C7: a tick that runs when no campaign is active changes no campaign, no *)
(* log entry and no analytics event, arms the next tick at 2000ms, and the *)
(* engine is Running afterwards.                                           *)
(***************************************************************************)
C7_IdleTick ==
  [][(TickRan /\ ActiveCampaigns(campaigns) = <<>>) =>
       /\ campaigns' = campaigns
       /\ logs' = logs
       /\ ga4Events' = ga4Events
       /\ engineTimer' # None
       /\ engineTimer'.delay = 2000
       /\ isEngineRunning']_vars

(* the engine idles: running, nothing active, re-armed at the idle delay *)
C7_Witness ==
  /\ isEngineRunning
  /\ ActiveCampaigns(campaigns) = <<>>
  /\ wafMode = "Standard"
  /\ engineTimer # None
  /\ engineTimer.delay = 2000
  /\ engineTimer.waf = "Standard"
  /\ ticks >= 2

(***************************************************************************)
(* C8: the log never holds more than 150 entries; every step that changes  *)
(* it puts one new entry at the newest position, keeps the entries below   *)
(* it in order and, when the log held 150, drops exactly the oldest one.   *)
(***************************************************************************)
C8_LogBounded ==
  /\ [](Len(logs) <= 150)
  /\ [][logs' # logs =>
          /\ Len(logs') = (IF Len(logs) = 150 THEN 150 ELSE Len(logs) + 1)
          /\ Tail(logs') = SubSeq(logs, 1, Len(logs') - 1)]_vars

(* the log is full and already lost initial entries to newer ones *)
C8_Witness ==
  /\ Len(logs) = 150
  /\ logs[150 - InitialLogCount + 1] # InitLogEntry
  /\ \E i \in DOMAIN logs : logs[i].kind = "REF"

(***************************************************************************)
(* C9: a tick adds a hit exactly when it appends one work entry to the     *)
(* log: hits added and engine work entries appended stay equal in number.  *)
(***************************************************************************)
C9_OneWorkEntryPerHit ==
  [][TickRan =>
       /\ SumHits(campaigns') \in {SumHits(campaigns), SumHits(campaigns) + 1}
       /\ (SumHits(campaigns') = SumHits(campaigns) + 1) <=> (logs' = <<HitLogEntry>> \o logs)
       /\ logs' \in {logs, <<HitLogEntry>> \o logs}]_vars

(***************************************************************************)
(* C10: a tick that adds a hit to a campaign appends exactly one analytics *)
(* event, named from the four-name catalog, when that campaign's ga4Id is  *)
(* non-null, and none when it is null.                                     *)
(***************************************************************************)
C10_OneEventPerGa4Hit ==
  [][TickRan =>
       \A i \in DOMAIN campaigns :
         HitsOfId(campaigns', campaigns[i].id) = campaigns[i].hits + 1 =>
           IF campaigns[i].ga4Id # Null
             THEN /\ ga4Events' # <<>>
                  /\ Tail(ga4Events') = ga4Events
                  /\ Head(ga4Events').eventName \in
                       {"page_view", "session_start", "user_engagement", "scroll"}
             ELSE ga4Events' = ga4Events]_vars

(***************************************************************************)
(* C11: the analytics buffer never holds more than 100 events; a step that *)
(* changes it either clears it, leaving the log as it is, or is a tick     *)
(* that puts one new event first, keeps the others in order, drops exactly *)
(* the oldest when 100 were held, and gives the log nothing but the tick's *)
(* own entry; a step that writes the log outside a tick leaves the         *)
(* analytics buffer as it is.                                              *)
(***************************************************************************)
C11_Ga4BufferBoundedIndependent ==
  /\ [](Len(ga4Events) <= 100)
  /\ [][/\ ga4Events' # ga4Events =>
             \/ ga4Events' = <<>> /\ logs' = logs
             \/ /\ TickRan
                /\ Len(ga4Events') = (IF Len(ga4Events) = 100 THEN 100 ELSE Len(ga4Events) + 1)
                /\ Tail(ga4Events') = SubSeq(ga4Events, 1, Len(ga4Events') - 1)
                /\ Len(logs') = (IF Len(logs) = 150 THEN 150 ELSE Len(logs) + 1)
                /\ Head(logs') = HitLogEntry
                /\ Tail(logs') = SubSeq(logs, 1, Len(logs') - 1)
        /\ (logs' # logs /\ ~TickRan) => ga4Events' = ga4Events]_vars

(* both buffers are full, the oldest event was dropped, the log took a referrer entry *)
C11_Witness ==
  /\ Len(ga4Events) = 100
  /\ ga4Events[100] # Ga4Event(0)
  /\ Len(logs) = 150
  /\ \E i \in DOMAIN logs : logs[i].kind = "REF"

(* the number of hit entries the engine wrote that the log holds *)
WorkEntries == Len(SelectSeq(logs, LAMBDA l : l.kind = "HIT" /\ l.type = "work"))

(* under SpecScenario the engine is started once, at time 0, and every     *)
(* timer is armed at 1500ms: the time of the last tick, in ms since start  *)
ScenarioElapsed == 1500 * (ticks - 1)

(***************************************************************************)
(* C12, as claimed: in the scenario, when the third 1500ms delay since the *)
(* start has elapsed and its tick has run, the campaign's stats.hits is 3  *)
(* above its starting value (0), the log has 3 new work entries and no     *)
(* analytics event exists.                                                 *)
(***************************************************************************)
C12_ThreeDelaysThreeHits ==
  (isEngineRunning /\ ScenarioElapsed = 3 * 1500) =>
    /\ HitsOfId(campaigns, NewCampaignId(0)) = 3
    /\ WorkEntries = 3
    /\ ga4Events = <<>>

(***************************************************************************)
(* C12, amended: the start runs one tick at once and every 1500ms delay    *)
(* one more, so after k delays stats.hits is k + 1 above its starting      *)
(* value, the log has k + 1 new work entries and no analytics event        *)
(* exists: 4 hits and 4 work entries when the third delay has elapsed.     *)
(***************************************************************************)
C12_ThreeDelaysFourHits ==
  isEngineRunning =>
    /\ engineTimer # None /\ engineTimer.delay = 1500
    /\ HitsOfId(campaigns, NewCampaignId(0)) = (ScenarioElapsed \div 1500) + 1
    /\ WorkEntries = (ScenarioElapsed \div 1500) + 1
    /\ ga4Events = <<>>
    /\ ScenarioElapsed = 3 * 1500 =>
         HitsOfId(campaigns, NewCampaignId(0)) = 4 /\ WorkEntries = 4

(* the third delay has elapsed: four ticks have run *)
C12_Witness ==
  /\ isEngineRunning
  /\ ScenarioElapsed = 3 * 1500
  /\ HitsOfId(campaigns, NewCampaignId(0)) = 4
  /\ Len(logs) = InitialLogCount + 4

(* a step in which a tick produced a hit *)
HitTick == TickRan /\ SumHits(campaigns') # SumHits(campaigns)

(* the delay lies in the range the spec gives the mode's base delay *)
InBaseRange(mode, delay) ==
  CASE mode = "Standard" -> delay = 1500
    [] mode = "Stealth" -> 2000 <= delay /\ delay < 3000
    [] mode = "Ghost" -> 2500 <= delay /\ delay < 4500
    [] OTHER -> FALSE

(***************************************************************************)
(* C13: the delay armed by a hit tick is exactly 1500ms when the tick ran  *)
(* in Standard mode, in [2000, 3000) in Stealth mode and in [2500, 4500)   *)
(* in Ghost mode; getWafDelay stays in these ranges for every draw.        *)
(***************************************************************************)
C13_BaseDelayRanges ==
  /\ [][HitTick => (engineTimer' # None => InBaseRange(engineTimer'.waf, engineTimer'.delay))]_vars
  /\ [](\A mode \in WafModes : \A d \in Draws : InBaseRange(mode, GetWafDelay(mode, d)))

(* a Ghost-mode hit armed the next tick above the range's lower end *)
C13_Witness ==
  /\ isEngineRunning
  /\ currentJob # NoJob
  /\ engineTimer # None
  /\ engineTimer.waf = "Ghost"
  /\ engineTimer.delay > 2500

(***************************************************************************)
(* C14: the pending tick always carries the evasion mode now selected, and *)
(* the delay a hit tick arms lies in the range of the mode selected when   *)
(* that tick runs, whatever mode was selected when the engine was started. *)
(***************************************************************************)
C14_ModeIsLive ==
  /\ [](engineTimer # None => engineTimer.waf = wafMode)
  /\ [][HitTick => (engineTimer' # None /\ InBaseRange(wafMode', engineTimer'.delay))]_vars

(* Running in Standard mode (Init selects Ghost): the third hit armed the Standard delay *)
C14_Witness ==
  /\ isEngineRunning
  /\ wafMode = "Standard"
  /\ engineTimer = [delay |-> 1500, waf |-> "Standard"]
  /\ campaigns[1].hits = 127
  /\ ticks = 3

(* the stored record of the campaign a hit tick selected *)
HitJob == campaigns[CHOOSE i \in DOMAIN campaigns : campaigns[i].id = currentJob'.campaign]

(***************************************************************************)
(* C15: a campaign whose trafficPattern is unset or empty is shown with    *)
(* the Linear radio checked, and the delay armed after its hit is the base *)
(* delay of the mode in force, unmodified: exactly 1500ms in Standard mode *)
(* and within the mode's base range otherwise.                             *)
(***************************************************************************)
C15_UnsetPatternIsLinear ==
  /\ [](\A i \in DOMAIN campaigns :
          campaigns[i].trafficPattern \in {Undefined, ""} =>
            CheckedRadios(campaigns[i]) = {"Linear"})
  /\ [][(HitTick /\ HitJob.trafficPattern \in {Undefined, ""}) =>
          /\ engineTimer' # None
          /\ InBaseRange(wafMode', engineTimer'.delay)]_vars

(* a campaign with no trafficPattern was hit in Standard mode while another has one stored *)
C15_Witness ==
  /\ campaigns[1].trafficPattern = Undefined
  /\ campaigns[1].hits > 124
  /\ currentJob.campaign = 1
  /\ engineTimer = [delay |-> 1500, waf |-> "Standard"]
  /\ \E i \in DOMAIN campaigns : campaigns[i].trafficPattern \in Patterns

(***************************************************************************)
(* C16: the delay armed after a hit on a campaign whose trafficPattern is  *)
(* Pulse is a burst delay of 400 to 500ms or 2.5 times a base delay of the *)
(* mode in force.                                                          *)
(***************************************************************************)
C16_PulseBurstOrLull ==
  [][(HitTick /\ HitJob.trafficPattern = "Pulse") =>
       /\ engineTimer' # None
       /\ \/ engineTimer'.delay \in 400 .. 500
          \/ \E d \in Draws : 2 * engineTimer'.delay = 5 * GetWafDelay(wafMode', d)]_vars

(***************************************************************************)
(* C17: the delay armed after a hit on a campaign whose trafficPattern is  *)
(* Viral is never below 0.2 of the base delay (1500ms in Standard mode,    *)
(* the lower end of the mode's range otherwise) and, at the fixed base of  *)
(* Standard mode, is never above the delay armed by the campaign's         *)
(* previous hit, when its hit count was lower.                             *)
(***************************************************************************)
C17_ViralNonIncreasing ==
  [][(HitTick /\ HitJob.trafficPattern = "Viral") =>
       /\ engineTimer' # None
       /\ 5 * engineTimer'.delay >= GetWafDelay(wafMode', 0)
       /\ (/\ wafMode' = "Standard"
           /\ engineTimer # None
           /\ engineTimer.waf = "Standard"
           /\ currentJob.campaign = currentJob'.campaign) =>
            engineTimer'.delay <= engineTimer.delay]_vars

(* a Viral campaign was hit twice in a row in Standard mode *)
C17_Witness ==
  /\ campaigns[1].trafficPattern = "Viral"
  /\ campaigns[1].hits >= 126
  /\ currentJob.campaign = 1
  /\ wafMode = "Standard"
  /\ engineTimer = [delay |-> 1500, waf |-> "Standard"]
  /\ edits = 1 /\ ticks = 4

(***************************************************************************)
(* C18: submitting the edit form with the radio of pattern P selected      *)
(* stores trafficPattern = P on the edited campaign, for P Linear, Viral   *)
(* and Pulse, and opening the edit form of a campaign that stores P shows  *)
(* exactly the radio of P checked.                                         *)
(***************************************************************************)
C18_SavePreservesPattern ==
  [][/\ \A f \in PatternSubmissions :
          (editingCampaign # NoCampaign
             /\ HandleSaveCampaign(f.nameGiven, f.urls, f.ga4Id, f.pattern)) =>
            \E i \in DOMAIN campaigns' :
              /\ campaigns'[i].id = editingCampaign.id
              /\ campaigns'[i].trafficPattern = f.pattern
              /\ CheckedRadios(campaigns'[i]) = {f.pattern}
     /\ \A i \in DOMAIN campaigns :
          (HandleEditCampaign(i) /\ campaigns[i].trafficPattern \in Patterns) =>
            CheckedRadios(editingCampaign') = {campaigns[i].trafficPattern}]_vars

(* Pulse was saved on camp-1 and its edit form, opened again, shows Pulse checked *)
C18_Witness ==
  /\ campaigns[1].trafficPattern = "Pulse"
  /\ edits = 1
  /\ showModal
  /\ editingCampaign.id = 1
  /\ CheckedRadios(editingCampaign) = {"Pulse"}

(***************************************************************************)
(* C19: the engine is either Stopped or Running; a start command given     *)
(* while Running and a stop command given while Stopped run no tick, leave *)
(* the pending tick as it is (armed once or not at all) and change no      *)
(* campaign, log entry or current job; while Stopped no tick is pending    *)
(* and no job is current, so nothing is there for a repeated stop to undo. *)
(***************************************************************************)
C19_RepeatedCommandIsNoOp ==
  /\ [](/\ isEngineRunning \in BOOLEAN
        /\ isEngineRunningRef = isEngineRunning
        /\ ~isEngineRunning => (engineTimer = None /\ currentJob = NoJob))
  /\ [][\A value \in BOOLEAN :
          (value = isEngineRunning /\ SetIsEngineRunning(value)) =>
            /\ ~TickRan
            /\ isEngineRunning' = isEngineRunning
            /\ engineTimer' = engineTimer
            /\ campaigns' = campaigns
            /\ logs' = logs
            /\ currentJob' = currentJob]_vars

(* Running with a tick pending and a current job: a start command finds the engine started *)
C19_Witness ==
  /\ isEngineRunning
  /\ ~crashed /\ ~showModal
  /\ engineTimer # None
  /\ currentJob # NoJob
  /\ ticks >= 2 /\ ticks < MaxTicks

(***************************************************************************)
(* C20: a tick changes no campaign's status; a step that changes a status  *)
(* is the pause/resume of one campaign: it flips that campaign between     *)
(* active and paused, keeps its stats.hits and every other field, and      *)
(* leaves every other campaign as it is.                                   *)
(***************************************************************************)
C20_StatusOnlyByPauseResume ==
  [][/\ DOMAIN campaigns' = DOMAIN campaigns
     /\ TickRan => \A i \in DOMAIN campaigns : campaigns'[i].status = campaigns[i].status
     /\ (\E i \in DOMAIN campaigns : campaigns'[i].status # campaigns[i].status) =>
          \E i \in DOMAIN campaigns :
            /\ ToggleCampaignStatus(i)
            /\ campaigns'[i].status \in {"active", "paused"}
            /\ campaigns'[i].status # campaigns[i].status
            /\ campaigns'[i].hits = campaigns[i].hits
            /\ campaigns'[i] = [campaigns[i] EXCEPT !.status = campaigns'[i].status]
            /\ \A k \in DOMAIN campaigns \ {i} : campaigns'[k] = campaigns[k]]_vars

(* camp-1 was hit and then paused, camp-3 was resumed and then hit *)
C20_Witness ==
  /\ campaigns[1].status = "paused" /\ campaigns[1].hits = 125
  /\ campaigns[3].status = "active" /\ campaigns[3].hits = 216
  /\ campaigns[2].status = "paused" /\ campaigns[2].hits = 87

(***************************************************************************)
(* lib/ReferrerManager.ts.  The static methods are pure but for their      *)
(* Math.random() draw; a call is modelled by an action that records its    *)
(* arguments, its draw and its result in call.  A string the code builds   *)
(* is a sequence of tokens: the characters of the keyword one token each,  *)
(* every literal piece one token.                                          *)
(***************************************************************************)

(* private static engines: the table, in its order (baseUrl is read nowhere) *)
engines ==
  << [name |-> "google", queryParam |-> "q",
      domains |-> <<"google.com", "google.de", "google.co.jp", "google.fr", "google.it">>],
     [name |-> "bing", queryParam |-> "q", domains |-> <<"bing.com">>],
     [name |-> "yahoo", queryParam |-> "p", domains |-> <<"yahoo.com">>],
     [name |-> "duckduckgo", queryParam |-> "q", domains |-> <<"duckduckgo.com">>] >>

EngineNameSet == {engines[i].name : i \in DOMAIN engines}

(* the engineName arguments tried: the four names, a name the table lacks, *)
(* and the argument left out                                               *)
EngineNameInputs == EngineNameSet \cup {"baidu", Undefined}

(* engineName: string = 'google' *)
EngineNameOrDefault(engineName) == IF engineName = Undefined THEN "google" ELSE engineName

(* this.engines.find(e => e.name === engineName) || this.engines[0] *)
FindEngine(engineName) ==
  IF \E i \in DOMAIN engines : engines[i].name = engineName
    THEN engines[CHOOSE i \in DOMAIN engines :
                   /\ engines[i].name = engineName
                   /\ \A j \in 1 .. (i - 1) : engines[j].name # engineName]
    ELSE engines[1]

(* the keywords tried: up to MaxKeywordLen characters, among them the      *)
(* characters the query-string syntax gives a meaning to                   *)
KeywordChars == {"a", " ", "&", "="}
Keywords == UNION {[1 .. n -> KeywordChars] : n \in 0 .. MaxKeywordLen}

(* faulty variant of EncodeChar: the value is written as it is *)
EncodeCharRaw(ch) == ch

(* the application/x-www-form-urlencoded byte serializer of                *)
(* URLSearchParams.toString(): a space becomes +, a character outside      *)
(* [A-Za-z0-9*-._] its percent escape                                      *)
EncodeChar(ch) ==
  CASE ch = " " -> "+"
    [] ch = "&" -> "%26"
    [] ch = "=" -> "%3D"
    [] ch = "+" -> "%2B"
    [] OTHER -> ch

(* a parameter value, serialized *)
EncodeValue(value) == [i \in DOMAIN value |-> EncodeChar(value[i])]

(* params.toString(): name=value pairs joined by & *)
RECURSIVE SerializeParams(_)
SerializeParams(params) ==
  IF params = <<>> THEN <<>>
  ELSE <<Head(params).name, "=">> \o EncodeValue(Head(params).value)
         \o (IF Len(params) > 1 THEN <<"&">> ELSE <<>>)
         \o SerializeParams(Tail(params))

(* the URLSearchParams built at lines 49-56 *)
ReferrerParams(engine, keyword) ==
  <<[name |-> engine.queryParam, value |-> keyword]>>
    \o (IF engine.name = "google"
          THEN << [name |-> "oq", value |-> keyword],
                  [name |-> "sourceid", value |-> <<"chrome">>],
                  [name |-> "ie", value |-> <<"UTF-8">>] >>
          ELSE <<>>)

(* generateOrganicReferrer(keyword, engineName), d/RandDen its Math.random() *)
GenerateOrganicReferrer(keyword, engineName, d) ==
  LET engine == FindEngine(EngineNameOrDefault(engineName))
      domain == engine.domains[RandomIndex(d, Len(engine.domains))]
  IN <<"https://www.", domain, "/search?">> \o SerializeParams(ReferrerParams(engine, keyword))

(* faulty variant of GetGASourceMedium: only the names of the table are organic *)
GetGASourceMediumKnownOnly(engineName) ==
  [source |-> EngineNameOrDefault(engineName),
   medium |-> IF EngineNameOrDefault(engineName) \in EngineNameSet
                THEN "organic" ELSE "referral"]

(* getGASourceMedium(engineName) *)
GetGASourceMedium(engineName) ==
  [source |-> EngineNameOrDefault(engineName), medium |-> "organic"]

(* the markets tried: the two the code names, the default's name, another  *)
(* market, and the argument left out                                       *)
MarketInputs == {"global", "de", "jp", "fr", Undefined}

(* market: string = 'global' *)
MarketOrDefault(market) == IF market = Undefined THEN "global" ELSE market

(* faulty variant of MarketWeights: the de and jp overrides are not applied *)
MarketWeightsGlobal(market) ==
  << [name |-> "google", weight |-> GoogleWeight], [name |-> "bing", weight |-> BingWeight],
     [name |-> "yahoo", weight |-> YahooWeight],
     [name |-> "duckduckgo", weight |-> DuckDuckGoWeight] >>

(* the weights record after lines 94-95, as Object.entries lists it        *)
(* (insertion order; an assignment to an existing key keeps its place),    *)
(* in hundredths                                                           *)
MarketWeights(market) ==
  << [name |-> "google", weight |-> IF market = "de" THEN GoogleWeightDe ELSE GoogleWeight],
     [name |-> "bing", weight |-> BingWeight],
     [name |-> "yahoo", weight |-> IF market = "jp" THEN YahooWeightJp ELSE YahooWeight],
     [name |-> "duckduckgo", weight |-> DuckDuckGoWeight] >>

(* cumulative after the first i entries, in hundredths *)
RECURSIVE Cumulative(_, _)
Cumulative(weights, i) == IF i = 0 THEN 0 ELSE weights[i].weight + Cumulative(weights, i - 1)

(* faulty variant of RandBelow: rand <= cumulative *)
RandBelowOrEqual(d, cumulative) == d * 100 <= cumulative * EngineDraws

(* rand < cumulative, rand being d/EngineDraws and cumulative in hundredths *)
RandBelow(d, cumulative) == d * 100 < cumulative * EngineDraws

(* the for loop of getRandomEngine from entry i on, and its fallback *)
RECURSIVE WalkWeights(_, _, _)
WalkWeights(weights, i, d) ==
  IF i > Len(weights) THEN "google"
  ELSE IF RandBelow(d, Cumulative(weights, i)) THEN weights[i].name
  ELSE WalkWeights(weights, i + 1, d)

(* getRandomEngine(market), d/EngineDraws its Math.random() *)
GetRandomEngine(market, d) == WalkWeights(MarketWeights(MarketOrDefault(market)), 1, d)

(* a call of ReferrerManager.getGASourceMedium *)
CallGetGASourceMedium(engineName) ==
  /\ call' = [fn |-> "getGASourceMedium", engineName |-> engineName,
              result |-> GetGASourceMedium(engineName)]
  /\ UNCHANGED appVars

(* a call of ReferrerManager.generateOrganicReferrer *)
CallGenerateOrganicReferrer(keyword, engineName) ==
  /\ \E d \in EdgeDraws :
       call' = [fn |-> "generateOrganicReferrer", keyword |-> keyword,
                engineName |-> engineName,
                result |-> GenerateOrganicReferrer(keyword, engineName, d)]
  /\ UNCHANGED appVars

(* a call of ReferrerManager.getRandomEngine *)
CallGetRandomEngine(market) ==
  /\ \E d \in 0 .. (EngineDraws - 1) :
       call' = [fn |-> "getRandomEngine", market |-> market, rand |-> d,
                result |-> GetRandomEngine(market, d)]
  /\ UNCHANGED appVars

NextReferrerManager ==
  \/ \E engineName \in EngineNameInputs : CallGetGASourceMedium(engineName)
  \/ \E keyword \in Keywords, engineName \in EngineNameInputs :
       CallGenerateOrganicReferrer(keyword, engineName)
  \/ \E market \in MarketInputs : CallGetRandomEngine(market)

SpecReferrerManager == Init /\ [][NextReferrerManager]_vars

(* ---------- reading a referrer URL back ---------- *)

(* the pieces of seq between the occurrences of sep *)
RECURSIVE SplitOn(_, _)
SplitOn(seq, sep) ==
  IF \A i \in DOMAIN seq : seq[i] # sep THEN <<seq>>
  ELSE LET k == CHOOSE i \in DOMAIN seq :
                  seq[i] = sep /\ \A j \in 1 .. (i - 1) : seq[j] # sep
       IN <<SubSeq(seq, 1, k - 1)>> \o SplitOn(SubSeq(seq, k + 1, Len(seq)), sep)

(* the urlencoded parser's decoding of one token *)
DecodeChar(tok) ==
  CASE tok = "+" -> " "
    [] tok = "%26" -> "&"
    [] tok = "%3D" -> "="
    [] tok = "%2B" -> "+"
    [] OTHER -> tok

(* one name=value piece of a query string, parsed *)
ParsePair(piece) ==
  LET parts == SplitOn(piece, "=")
      rest == SubSeq(piece, Len(parts[1]) + 2, Len(piece))
  IN [name |-> parts[1], value |-> [i \in DOMAIN rest |-> DecodeChar(rest[i])]]

(* a query string parsed as a URLSearchParams would: split on &, empty     *)
(* pieces skipped, each piece split at its first =                         *)
ParseQuery(query) ==
  LET pieces == SelectSeq(SplitOn(query, "&"), LAMBDA piece : piece # <<>>)
  IN [i \in DOMAIN pieces |-> ParsePair(pieces[i])]

(* the engine a name resolves to: the one of that name, google otherwise *)
ResolvedEngine(engineName) ==
  IF engineName \in EngineNameSet
    THEN engines[CHOOSE i \in DOMAIN engines : engines[i].name = engineName]
    ELSE engines[CHOOSE i \in DOMAIN engines : engines[i].name = "google"]

(* C21: getGASourceMedium(x) returns medium "organic" and source x for     *)
(* every x, a name no engine has included (x left out is the default       *)
(* google)                                                                 *)
C21_SourceMediumAlwaysOrganic ==
  call.fn = "getGASourceMedium" =>
    /\ call.result.medium = "organic"
    /\ call.result.source =
         (IF call.engineName = Undefined THEN "google" ELSE call.engineName)

C21_Witness ==
  /\ call.fn = "getGASourceMedium"
  /\ call.engineName = "baidu"
  /\ call.result = [source |-> "baidu", medium |-> "organic"]

(* C22: generateOrganicReferrer returns https://www.<domain>/search?...,   *)
(* the domain one of the resolved engine's (google for an unknown name),   *)
(* the query carrying the resolved engine's query parameter (p for yahoo,  *)
(* q otherwise) with the keyword as its value, and the parameters oq,      *)
(* sourceid and ie exactly when the resolved engine is google              *)
C22_OrganicReferrerShape ==
  call.fn = "generateOrganicReferrer" =>
    LET engine == ResolvedEngine(call.engineName)
        url == call.result
        pairs == ParseQuery(SubSeq(url, 4, Len(url)))
        names == {pairs[i].name : i \in DOMAIN pairs}
    IN /\ url[1] = "https://www."
       /\ \E k \in DOMAIN engine.domains : url[2] = engine.domains[k]
       /\ url[3] = "/search?"
       /\ engine.queryParam = (IF engine.name = "yahoo" THEN "p" ELSE "q")
       /\ pairs[1] = [name |-> <<engine.queryParam>>, value |-> call.keyword]
       /\ names = {<<engine.queryParam>>}
                    \cup (IF engine.name = "google"
                            THEN {<<"oq">>, <<"sourceid">>, <<"ie">>} ELSE {})
       /\ Len(pairs) = Cardinality(names)

C22_Witness ==
  /\ call.fn = "generateOrganicReferrer"
  /\ call.engineName = "baidu"
  /\ call.keyword = <<"a", "&">>
  /\ call.result = <<"https://www.", "google.fr", "/search?", "q", "=", "a", "%26", "&",
                     "oq", "=", "a", "%26", "&", "sourceid", "=", "chrome", "&",
                     "ie", "=", "UTF-8">>

(* C23: getRandomEngine returns the first engine, in table order, whose    *)
(* cumulative weight strictly exceeds the draw r, google when there is     *)
(* none; the result is always one of the four engines                      *)
C23_FirstEngineAboveDraw ==
  call.fn = "getRandomEngine" =>
    LET weights == MarketWeights(MarketOrDefault(call.market))
        above == {i \in DOMAIN weights :
                    Cumulative(weights, i) * EngineDraws > call.rand * 100}
    IN /\ call.result \in {"google", "bing", "yahoo", "duckduckgo"}
       /\ call.result =
            (IF above = {} THEN "google"
             ELSE weights[CHOOSE i \in above : \A j \in above : i <= j].name)

C23_Witness ==
  /\ call.fn = "getRandomEngine"
  /\ call.market = "global"
  /\ call.rand * 100 >= GoogleWeight * EngineDraws
  /\ (call.rand - 1) * 100 < GoogleWeight * EngineDraws
  /\ call.result = "bing"

(* C29: for the markets de and jp getRandomEngine returns duckduckgo for   *)
(* no draw; for every other market each of the four engines is returned    *)
(* for some draw                                                           *)
C29_DuckDuckGoUnreachableInDeJp ==
  /\ (call.fn = "getRandomEngine" /\ call.market \in {"de", "jp"})
       => call.result # "duckduckgo"
  /\ \A market \in MarketInputs \ {"de", "jp"} :
       \A name \in {"google", "bing", "yahoo", "duckduckgo"} :
         \E d \in 0 .. (EngineDraws - 1) : GetRandomEngine(market, d) = name

C29_Witness ==
  /\ call.fn = "getRandomEngine"
  /\ call.market = "de"
  /\ call.rand = EngineDraws - 1
  /\ call.result = "yahoo"

(***************************************************************************)
(* SessionOrchestrator (src/unnamed/part_003, and part_004, the same class *)
(* without the analytics dispatch).                                        *)
(***************************************************************************)

(* const paths = [...] of generateNavigationPath *)
paths == <<"/about", "/blog", "/contact", "/services", "/products">>

(* paths[Math.floor(Math.random() * paths.length)], d/PathDraws its Math.random() *)
RandomPath(d) == paths[((d * Len(paths)) \div PathDraws) + 1]

(* faulty variant of PushIfAbsent: the includes test is missing *)
PushAlways(selectedPaths, path) == Append(selectedPaths, path)

(* if (!selectedPaths.includes(path)) selectedPaths.push(path) *)
PushIfAbsent(selectedPaths, path) ==
  IF \E k \in DOMAIN selectedPaths : selectedPaths[k] = path
    THEN selectedPaths
    ELSE Append(selectedPaths, path)

(* the values selectedPaths can have after i iterations of the for loop *)
RECURSIVE SelectedPathsAfter(_)
SelectedPathsAfter(i) ==
  IF i = 0 THEN {<<>>}
  ELSE {PushIfAbsent(selected, RandomPath(d)) :
          selected \in SelectedPathsAfter(i - 1), d \in 0 .. (PathDraws - 1)}

(* generateNavigationPath(depth): the results its draws can produce *)
GenerateNavigationPath(depth) == SelectedPathsAfter(depth)

(* a call of generateNavigationPath *)
CallGenerateNavigationPath(depth) ==
  /\ \E result \in GenerateNavigationPath(depth) :
       call' = [fn |-> "generateNavigationPath", depth |-> depth, result |-> result]
  /\ UNCHANGED appVars

(* the SessionConfig values tried: a keyword with a character the query    *)
(* string escapes, a known and an unknown engine, both device types, each  *)
(* GA4 credential present or absent                                        *)
SessionConfigs ==
  [keyword : {<<"a", " ">>}, searchEngine : {"yahoo", "baidu"},
   deviceType : {"desktop", "mobile"}, ga4Id : {Null, "G-TEST"}, ga4Secret : {Null, "secret"}]

(* FingerprintRotator.generateFingerprint(type): the platform it derives   *)
(* from the type and the one draw kept of its Math.random() draws          *)
GenerateFingerprint(type, d) ==
  [platform |-> IF type = "desktop" THEN "Win32" ELSE "Linux armv8l", userAgent |-> d]

(* BehaviorSimulator.generateSessionProfile(): Math.floor(Math.random() * 3) + 3 pages *)
GenerateSessionProfile(d) == [pagesVisited |-> ((d * 3) \div RandDen) + 3]

NoSession == [fingerprint |-> Undefined]

(* the object startSession returns (part_004:40-45; part_003:43-47) *)
Session(config, dFp, dRef, dProfile) ==
  [fingerprint |-> GenerateFingerprint(config.deviceType, dFp),
   referrer |-> GenerateOrganicReferrer(config.keyword, config.searchEngine, dRef),
   behavior |-> GenerateSessionProfile(dProfile),
   gaParams |-> GetGASourceMedium(config.searchEngine)]

(* startSession of part_004, the class without the analytics dispatch: it  *)
(* reads neither ga4Id nor ga4Secret and returns the session               *)
CallStartSession(config) ==
  /\ \E dFp \in EdgeDraws, dProfile \in Draws :
       call' = [fn |-> "startSession", source |-> "part_004", config |-> config,
                completed |-> TRUE, raised |-> Null, dispatchAttempted |-> FALSE,
                result |-> Session(config, dFp, 0, dProfile)]
  /\ UNCHANGED appVars

(* startSession of part_003, the class with the analytics dispatch.  Its   *)
(* if (ga4Id && ga4Secret) { try { ... } catch { ... } } statement stands  *)
(* inside the object literal of the return statement (lines 43-64), after  *)
(* the gaParams property and with no comma: the file is no TypeScript      *)
(* module, so loading it raises a SyntaxError and no call of startSession  *)
(* returns, whatever the config.                                           *)
CallStartSessionGa4(config) ==
  /\ call' = [fn |-> "startSession", source |-> "part_003", config |-> config,
              completed |-> FALSE, raised |-> "SyntaxError", dispatchAttempted |-> FALSE,
              result |-> NoSession]
  /\ UNCHANGED appVars

NextSessionOrchestrator ==
  \/ \E depth \in 0 .. MaxDepth : CallGenerateNavigationPath(depth)
  \/ \E config \in SessionConfigs : CallStartSession(config)
  \/ \E config \in SessionConfigs : CallStartSessionGa4(config)

SpecSessionOrchestrator == Init /\ [][NextSessionOrchestrator]_vars

(* C24: generateNavigationPath(depth) returns a list without repeats whose *)
(* entries come from the catalog /about, /blog, /contact, /services,       *)
(* /products; its length is at most min(depth, 5), at least 1 when depth   *)
(* is at least 1, and may be less than depth                               *)
C24_NavigationPathDistinctBounded ==
  call.fn = "generateNavigationPath" =>
    LET result == call.result IN
    /\ \A i, j \in DOMAIN result : result[i] = result[j] => i = j
    /\ \A i \in DOMAIN result :
         result[i] \in {"/about", "/blog", "/contact", "/services", "/products"}
    /\ Len(result) <= Min(call.depth, 5)
    /\ call.depth >= 1 => Len(result) >= 1

C24_Witness ==
  /\ call.fn = "generateNavigationPath"
  /\ call.depth = 3
  /\ call.result = <<"/products">>

(* C25: startSession always completes with a session {fingerprint,         *)
(* referrer, behavior, gaParams}; an analytics dispatch is attempted only  *)
(* when both ga4Id and ga4Secret are present, and nothing is raised to the *)
(* caller                                                                  *)
C25_StartSessionAlwaysCompletes ==
  call.fn = "startSession" =>
    /\ call.completed
    /\ call.raised = Null
    /\ DOMAIN call.result = {"fingerprint", "referrer", "behavior", "gaParams"}
    /\ call.dispatchAttempted =>
         (call.config.ga4Id # Null /\ call.config.ga4Secret # Null)

(***************************************************************************)
(* BehaviorSimulator.generateScrollPattern (src/unnamed/part_001), in      *)
(* whole pixels.                                                           *)
(***************************************************************************)

(* the page heights tried *)
PageHeights == {1, MaxPageHeight \div 2, MaxPageHeight}

(* Math.random() * 300 + 100 *)
ScrollDistance(d) == ((d * 300) \div RandDen) + 100

(* Math.random() < 0.2, the draw being d/RandDen *)
BackscrollChance(d) == d * 5 < RandDen

(* Math.random() * 100 + 50 *)
Backscroll(d) == ((d * 100) \div RandDen) + 50

(* the arrays the while loop can end with, from currentPosition and        *)
(* scrollPoints on, the final push(pageHeight) included; currentPosition   *)
(* grows by at least 100 in every iteration, so the loop ends              *)
RECURSIVE ScrollPatternsFrom(_, _, _)
ScrollPatternsFrom(currentPosition, scrollPoints, pageHeight) ==
  IF ~(currentPosition < pageHeight) THEN {Append(scrollPoints, pageHeight)}
  ELSE UNION {
         LET position == currentPosition + ScrollDistance(dDist) IN
         IF position < pageHeight
           THEN UNION {
                  IF BackscrollChance(dChance)
                    THEN UNION {ScrollPatternsFrom(position,
                                  scrollPoints \o <<position, position - Backscroll(dBack)>>,
                                  pageHeight) : dBack \in Draws}
                    ELSE ScrollPatternsFrom(position, Append(scrollPoints, position),
                                            pageHeight)
                  : dChance \in EdgeDraws}
           ELSE ScrollPatternsFrom(position, scrollPoints, pageHeight)
         : dDist \in Draws}

(* generateScrollPattern(pageHeight): the results its draws can produce *)
GenerateScrollPattern(pageHeight) == ScrollPatternsFrom(0, <<0>>, pageHeight)

(* a call of generateScrollPattern *)
CallGenerateScrollPattern(pageHeight) ==
  /\ \E result \in GenerateScrollPattern(pageHeight) :
       call' = [fn |-> "generateScrollPattern", pageHeight |-> pageHeight,
                result |-> result]
  /\ UNCHANGED appVars

NextBehaviorSimulator == \E pageHeight \in PageHeights : CallGenerateScrollPattern(pageHeight)

SpecBehaviorSimulator == Init /\ [][NextBehaviorSimulator]_vars

(* C26: for every pageHeight > 0 generateScrollPattern returns a sequence  *)
(* whose first element is 0 and whose last element is pageHeight, in which *)
(* no element is negative and no element exceeds pageHeight                *)
C26_ScrollPatternWithinPage ==
  (call.fn = "generateScrollPattern" /\ call.pageHeight > 0) =>
    LET result == call.result IN
    /\ result[1] = 0
    /\ result[Len(result)] = call.pageHeight
    /\ \A i \in DOMAIN result : result[i] >= 0 /\ result[i] <= call.pageHeight

(* the number of setTimeout(runTrafficEngine, ...) callbacks still pending *)
PendingCount == Len(strayTimers) + (IF engineTimer = None THEN 0 ELSE 1)

(* a runTrafficEngine invocation of a Running engine that ran to its end:  *)
(* no exception left it                                                    *)
TickCompleted ==
  /\ TickRan
  /\ isEngineRunningRef'
  /\ ~crashed'
  /\ (Len(ActiveCampaigns(campaignsRef)) = 0 \/ UrlParses(currentJob'.url))

(* C27: at every moment at most one future tick is pending, across any     *)
(* sequence of start, stop, tick firings and evasion-mode changes; each    *)
(* completed tick of a Running engine arms exactly one                     *)
C27_AtMostOnePendingTick ==
  /\ [](PendingCount <= 1)
  /\ [][TickCompleted => (engineTimer' # None /\ PendingCount' = 1)]_vars

C27_Witness ==
  /\ isEngineRunning
  /\ ticks = 3
  /\ wafMode = "Standard"
  /\ engineTimer = [delay |-> 1500, waf |-> "Standard"]
  /\ PendingCount = 1
  /\ campaigns[1].hits = 127

(* an activation of the loop: Stopped -> Running, or a change of the       *)
(* evasion mode while Running                                              *)
Activation ==
  \/ ~isEngineRunning /\ isEngineRunning'
  \/ isEngineRunning /\ isEngineRunning' /\ wafMode' # wafMode

(* C28: each activation of the loop (Stopped -> Running, or a change of    *)
(* evasion mode while Running) runs one tick at once; a hit is produced at *)
(* that moment whenever an active campaign exists, and the next tick is    *)
(* then armed, alone, from the mode now in force                           *)
C28_ActivationTicksAtOnce ==
  [][Activation =>
       /\ TickRan
       /\ Len(ActiveCampaigns(campaigns)) > 0 =>
            /\ SumHits(campaigns') = SumHits(campaigns) + 1
            /\ engineTimer' # None
            /\ engineTimer'.waf = wafMode'
            /\ InBaseRange(wafMode', engineTimer'.delay)
            /\ PendingCount' = 1]_vars

(***************************************************************************)
(* The referrer validator alone.  A setTimeout callback runs once its      *)
(* delay has passed, whatever the operator does meanwhile: weak fairness   *)
(* of ReferrerCheckDone.                                                   *)
(***************************************************************************)
SpecReferrer == Init /\ [][ReferrerActions]_vars /\ WF_vars(ReferrerCheckDone)

(* the referrer checks whose callback has run *)
ChecksDone == checks - Len(referrerChecks)

(* the callback of the oldest check in flight runs *)
CheckCompletes == Len(referrerChecks') < Len(referrerChecks)

(* C30: every referrer check that is started completes, setting the status *)
(* to valid or invalid from the URL text as it was when that check started *)
(* and appending exactly one log entry (type work if valid, error          *)
(* otherwise); editing the URL while a check is in flight resets the       *)
(* status to idle and allows a second check to start, and the earlier      *)
(* check still completes and overwrites the status                         *)
C30_ReferrerCheckCompletes ==
  /\ \A n \in 1 .. MaxChecks : (checks >= n) ~> (ChecksDone >= n)
  /\ [][CheckCompletes =>
          LET text == Head(referrerChecks)
              valid == text = "https://referrer-site.com"
          IN /\ referrerChecks' = Tail(referrerChecks)
             /\ referrerStatus' = (IF valid THEN "valid" ELSE "invalid")
             /\ Len(logs') = Len(logs) + 1
             /\ Tail(logs') = logs
             /\ Head(logs').type = (IF valid THEN "work" ELSE "error")]_vars
  /\ [][(referrerUrl' # referrerUrl /\ referrerChecks # <<>>) =>
          /\ referrerStatus' = "idle"
          /\ referrerChecks' = referrerChecks]_vars
  /\ []((referrerStatus = "idle" /\ referrerUrl # "" /\ checks < MaxChecks)
          => ENABLED (HandleCheckReferrer /\ checks' = checks + 1))

C30_Witness ==
  /\ checks = 2
  /\ referrerUrl = "httpx"
  /\ referrerChecks = <<"httpx">>
  /\ referrerStatus = "valid"
  /\ Head(logs) = [type |-> "work", kind |-> "REF"]

====
